---- MODULE Spec2Model ----
(***************************************************************************)
(* A model of myssg (src/main.go): the incremental build engine (build     *)
(* cache, two-pass processContentFolder, buildSite), the file watcher and  *)
(* the live-reload registry.                                               *)
(*                                                                         *)
(* Strings whose bytes matter (file names, paths, fingerprints) are        *)
(* sequences of byte values; a file's content is the sequence of its lines *)
(* (what strings.Split(content, "\n") yields).                             *)
(***************************************************************************)
EXTENDS Integers, Sequences, FiniteSets, TLC

\* ------------------------------------------------------------------ bounds
\* largest value of the wall clock (seconds)
MaxTime == 1
\* number of changes the environment makes to the content directory
MaxEdits == 1

\* ------------------------------------------------------- strings as bytes
\* "content", the directory buildSite passes to processContentFolder
contentDir == <<99, 111, 110, 116, 101, 110, 116>>
Slash == <<47>>
\* ".md"
MdExt == <<46, 109, 100>>

\* content file names: "a.md" and "A.md"
FileA == <<97, 46, 109, 100>>
FileUpperA == <<65, 46, 109, 100>>
Files == {FileA, FileUpperA}
\* other entries of the content directory: "n.txt" (a file), "d.md" (a directory)
FileTxt == <<110, 46, 116, 120, 116>>
DirMd == <<100, 46, 109, 100>>

\* names of editor artefacts the watcher sees: "b.tmp.md" and "4913"
TmpMd == <<98, 46, 116, 109, 112, 46, 109, 100>>
Tmp4913 == <<52, 57, 49, 51>>

\* strings.HasSuffix
HasSuffix(s, suf) ==
    /\ Len(s) >= Len(suf)
    /\ SubSeq(s, Len(s) - Len(suf) + 1, Len(s)) = suf

\* strings.Contains
Contains(s, sub) ==
    \E i \in 1..(Len(s) - Len(sub) + 1) : SubSeq(s, i, i + Len(sub) - 1) = sub

\* filepath.Base for a non-empty path without trailing slash
Base(path) ==
    LET cuts == {i \in 1..Len(path) : path[i] = 47}
        last == IF cuts = {} THEN 0 ELSE CHOOSE i \in cuts : \A j \in cuts : j <= i
    IN  SubSeq(path, last + 1, Len(path))

\* the denylist of isEditorTempFile: "~" ".swp" ".swx" ".tmp" ".TMP" ".git" "4913"
tempPatterns ==
    << <<126>>, <<46, 115, 119, 112>>, <<46, 115, 119, 120>>, <<46, 116, 109, 112>>,
       <<46, 84, 77, 80>>, <<46, 103, 105, 116>>, <<52, 57, 49, 51>> >>

\* a variant that matches the patterns as suffixes only
isEditorTempFileSuffix(filename) ==
    \E k \in 1..Len(tempPatterns) : HasSuffix(Base(filename), tempPatterns[k])

isEditorTempFile(filename) ==
    \E k \in 1..Len(tempPatterns) : Contains(Base(filename), tempPatterns[k])

hasMarkdownExtension(filename) ==
    Len(filename) > 3 /\ SubSeq(filename, Len(filename) - 2, Len(filename)) = MdExt

\* name[0]-32 is byte arithmetic (mod 256); string(byte) is the rune of that value
extractTitle(filename) ==
    LET name == SubSeq(filename, 1, Len(filename) - 3)
    IN  IF Len(name) > 0
        THEN <<(name[1] - 32) % 256>> \o SubSeq(name, 2, Len(name))
        ELSE name

\* strings.ToLower on one ASCII byte
ToLowerByte(b) == IF b >= 65 /\ b <= 90 THEN b + 32 ELSE b

generateSlug(filename) ==
    LET name == SubSeq(filename, 1, Len(filename) - 3)
    IN  [i \in 1..Len(name) |-> ToLowerByte(name[i])]

\* contentDir + "/" + entry.Name()
PathOf(name) == contentDir \o Slash \o name

\* ------------------------------------------------------- content of a file
\* the line "---" that delimits front matter
Delim == "---"
\* "Hello"
TitleHello == <<72, 101, 108, 108, 111>>

\* a file without front matter
DocPlain == <<"# Hi">>
\* front matter that parses, draft false, blank lines around the body
DocFm == <<"---", "title: Hello", "draft: false", "---", "", "# Hi", "">>
\* the same with draft true (and the same number of bytes)
DocDraft == <<"---", "title: Hello", "draft:  true", "---", "", "# Hi", "">>
\* front matter that is not valid YAML (an unclosed flow sequence)
DocBad == <<"---", "title: Hello", "tags: [", "---", "# Hi">>
Contents == {DocPlain, DocFm, DocDraft, DocBad}

\* len(content): the bytes of the lines and of the "\n" between them
RECURSIVE SumLen(_)
SumLen(lines) ==
    IF lines = <<>> THEN 0 ELSE Len(Head(lines)) + SumLen(Tail(lines))

ByteLen(content) == SumLen(content) + Len(content) - 1

\* yaml.Unmarshal into FrontMatter, for the metadata lines used here
yamlUnmarshal(fmLines) ==
    LET has(l) == \E i \in 1..Len(fmLines) : fmLines[i] = l
    IN  [err   |-> has("tags: ["),
         Title |-> IF has("title: Hello") THEN TitleHello ELSE <<>>,
         Draft |-> has("draft: true") \/ has("draft:  true")]

\* the zero FrontMatter
NoFrontMatter == [err |-> FALSE, Title |-> <<>>, Draft |-> FALSE]

\* strings.TrimSpace of the joined lines (no line here starts or ends with a blank)
TrimSpace(lines) ==
    LET full == {i \in 1..Len(lines) : lines[i] # ""}
    IN  IF full = {} THEN <<"">>
        ELSE SubSeq(lines, CHOOSE i \in full : \A j \in full : i <= j,
                           CHOOSE i \in full : \A j \in full : j <= i)

parseMarkdownWithFrontMatter(content) ==
    LET lines == content
        closing == {i \in 2..Len(lines) : lines[i] = Delim}
    IN  IF Len(lines) > 2 /\ lines[1] = Delim /\ closing # {}
        THEN LET i == CHOOSE k \in closing : \A j \in closing : k <= j
                 fm == yamlUnmarshal(SubSeq(lines, 2, i - 1))
             IN  IF fm.err
                 THEN [fm |-> fm, body |-> content, err |-> TRUE]
                 ELSE [fm |-> fm, body |-> TrimSpace(SubSeq(lines, i + 1, Len(lines))),
                       err |-> FALSE]
        ELSE [fm |-> NoFrontMatter, body |-> content, err |-> FALSE]

\* ------------------------------------------------------------ fingerprint
\* %d of a non-negative integer, as bytes
RECURSIVE Dec(_)
Dec(n) == IF n < 10 THEN <<48 + n>> ELSE Dec(n \div 10) \o <<48 + (n % 10)>>

\* a variant that leaves the modification time out
SprintfSizeOnly(size, mtime) == Dec(size)

\* fmt.Sprintf("%d-%d", len(content), info.ModTime().Unix())
Sprintf(size, mtime) == Dec(size) \o <<45>> \o Dec(mtime)

\* ------------------------------------------------------------- file system
\* a directory entry: "ok", "noread" (os.Stat succeeds, os.ReadFile fails) or
\* "nostat" (both fail: a dangling link)
Access == {"ok", "noread", "nostat"}
Absent == [present |-> FALSE, content |-> DocPlain, mtime |-> 0, access |-> "ok"]
FileStates ==
    {Absent} \cup [present : {TRUE}, content : Contents, mtime : 0..MaxTime, access : Access]

\* the entry a path of the content directory names
Entry(fsys, path) == fsys[Base(path)]

StatOK(fsys, path) == Entry(fsys, path).present /\ Entry(fsys, path).access # "nostat"
ReadOK(fsys, path) == Entry(fsys, path).present /\ Entry(fsys, path).access = "ok"

calculateFileHash(fsys, path) ==
    IF ~ReadOK(fsys, path) THEN [err |-> TRUE, hash |-> <<>>]
    ELSE IF ~StatOK(fsys, path) THEN [err |-> TRUE, hash |-> <<>>]
    ELSE [err |-> FALSE,
          hash |-> Sprintf(ByteLen(Entry(fsys, path).content), Entry(fsys, path).mtime)]

\* a variant that takes a failed read for "no change"
needsRebuildNoRead(fsys, hashes, path) ==
    IF ~StatOK(fsys, path) THEN TRUE
    ELSE IF path \notin DOMAIN hashes THEN TRUE
    ELSE LET h == calculateFileHash(fsys, path)
         IN  IF h.err THEN FALSE ELSE hashes[path] # h.hash

\* BuildCache.needsRebuild; hashes is bc.FileHashes
needsRebuild(fsys, hashes, path) ==
    IF ~StatOK(fsys, path) THEN TRUE
    ELSE IF path \notin DOMAIN hashes THEN TRUE
    ELSE LET h == calculateFileHash(fsys, path)
         IN  IF h.err THEN TRUE ELSE hashes[path] # h.hash

\* os.ReadDir: the entries present, sorted by name ("A.md" < "a.md" < "d.md" < "n.txt")
DirOrder == <<FileUpperA, FileA, DirMd, FileTxt>>
IsDir(name) == name = DirMd
Present(fsys, name) == IF name \in Files THEN fsys[name].present ELSE TRUE
ReadDir(fsys) == SelectSeq(DirOrder, LAMBDA n : Present(fsys, n))

\* first pass of processContentFolder: the changed-file list
ScanChanged(fsys, hashes) ==
    LET md == SelectSeq(ReadDir(fsys), LAMBDA n : ~IsDir(n) /\ hasMarkdownExtension(n))
        paths == [i \in 1..Len(md) |-> PathOf(md[i])]
    IN  SelectSeq(paths, LAMBDA q : needsRebuild(fsys, hashes, q))

\* a variant that uses the front matter's title even when parsing failed
MakePostFmTitle(path, content) ==
    LET entryName == Base(path)
        p == parseMarkdownWithFrontMatter(content)
    IN  [Title |-> IF p.fm.Title = <<>> THEN extractTitle(entryName) ELSE p.fm.Title,
         Content |-> p.body, Slug |-> generateSlug(entryName),
         Draft |-> IF p.err THEN FALSE ELSE p.fm.Draft, src |-> path]

\* the Post the second pass builds from a file's content; src is the file it
\* came from (not a field of Post: kept to state the claims)
MakePost(path, content) ==
    LET entryName == Base(path)
        p == parseMarkdownWithFrontMatter(content)
    IN  IF p.err
        THEN [Title |-> extractTitle(entryName), Content |-> content,
              Slug |-> generateSlug(entryName), Draft |-> FALSE, src |-> path]
        ELSE [Title |-> IF p.fm.Title = <<>> THEN extractTitle(entryName) ELSE p.fm.Title,
              Content |-> p.body, Slug |-> generateSlug(entryName),
              Draft |-> p.fm.Draft, src |-> path]

\* a variant that adds drafts too
RetainedAll(content) == TRUE

\* whether the second pass calls site.AddPost for the file
Retained(content) ==
    LET p == parseMarkdownWithFrontMatter(content)
    IN  p.err \/ ~p.fm.Draft

\* ------------------------------------------------------------------- state
\* number of live-reload connections the server handles at once
MaxSessions == 2
MaxPieces == 3
Sessions == 1..MaxSessions

VARIABLES
    mode,          \* the command: "build", "force" or "serve"
    clock,         \* wall clock, seconds
    edits,         \* number of changes made to the content directory
    fs,            \* content directory: file name -> entry
    hashes,        \* buildCache.FileHashes: path -> fingerprint
    lastBuild,     \* buildCache.LastBuild (-1: zero time)
    stamp,         \* path -> the file as it was when its fingerprint was stored
    pub,           \* public/<slug>.html: slug -> page written
    wpc,           \* position of main / of the watcher goroutine
    ev,            \* the event the watcher is handling
    bpc,           \* position inside buildSite
    changedFiles,  \* processContentFolder's changedFiles
    idx,           \* index of the second pass
    posts,         \* site.Posts
    ridx,          \* index of buildSite's render loop
    result,        \* how the last buildSite ended
    run,           \* record of the current build, for the claims
    prev,          \* record of the build before it, for the claims
    registry,      \* keys of liveReloadClients
    chan,          \* session -> number of values buffered in its reloadChan
    spc,           \* session -> position of its handleLiveReload
    gone,          \* session -> its request context is done
    lock,          \* holder of liveReloadMutex
    todo,          \* keys notifyLiveReload's range has still to visit
    bc,            \* record of the current broadcast, for the claims
    owed,          \* session -> a watcher build completed and no reload was emitted since
    pend,          \* the event fsnotify's reader is blocked sending on watcher.Events
    left,          \* FileHashes as the previous command's process left it, for the claims
    disk,          \* the file .buildcache
    lerr,          \* what the last Save or Load returned
    arg,           \* the argument of a function applied on its own
    ret            \* what that function returned

buildVars == <<hashes, lastBuild, stamp, pub, bpc, changedFiles, idx, posts, ridx, result, run, prev>>
envVars == <<clock, edits, fs>>
sessVars == <<registry, chan, spc, gone, lock, todo, bc>>
hostVars == <<pend, left, disk, lerr, arg, ret>>
vars == <<mode, clock, edits, fs, hashes, lastBuild, stamp, pub, wpc, ev, bpc, changedFiles,
          idx, posts, ridx, result, run, prev, registry, chan, spc, gone, lock, todo,
          bc, owed, pend, left, disk, lerr, arg, ret>>

NoEvent == [name |-> <<>>, op |-> {}]
EmptyMap == [q \in {} |-> <<>>]
NoRun == [force |-> FALSE, scanned |-> FALSE, procDone |-> FALSE, edits0 |-> 0,
          hashes0 |-> EmptyMap, lastBuild0 |-> -1, updated |-> {}, written |-> {},
          log |-> <<>>, why |-> "none", unwritten |-> {}]
NoPrev == [valid |-> FALSE, procDone |-> FALSE, edits0 |-> 0, unwritten |-> {}]
NoBroadcast == [start |-> {}, full |-> {}, sent |-> [s \in Sessions |-> 0]]
NoLeft == [valid |-> FALSE, hashes |-> EmptyMap]
\* .buildcache does not exist
NoFile == [kind |-> "missing", obj |-> EmptyMap]
\* no function is applied on its own
NoArg == [fn |-> "none", x |-> <<>>]
NoRet == [done |-> FALSE, val |-> <<>>]
\* neither Save nor Load was called
NoOp == [op |-> "none", err |-> FALSE, fresh |-> FALSE]

\* a new process over some content directory, but for the cache map
InitRest ==
    /\ mode \in {"build", "force", "serve"}
    /\ clock = 0
    /\ edits = 0
    /\ fs \in [Files -> {e \in FileStates : e.mtime = 0}]
    /\ lastBuild = -1
    /\ pub = EmptyMap
    /\ wpc = "main"
    /\ ev = NoEvent
    /\ bpc = "idle"
    /\ changedFiles = <<>>
    /\ idx = 1
    /\ posts = <<>>
    /\ ridx = 1
    /\ result = "none"
    /\ run = NoRun
    /\ prev = NoPrev
    /\ registry = {}
    /\ chan = [s \in Sessions |-> 0]
    /\ spc = [s \in Sessions |-> "none"]
    /\ gone = [s \in Sessions |-> FALSE]
    /\ lock = "free"
    /\ todo = {}
    /\ bc = NoBroadcast
    /\ owed = [s \in Sessions |-> FALSE]
    /\ pend = NoEvent
    /\ left = NoLeft
    /\ disk = NoFile
    /\ lerr = NoOp

\* the map of lines 63-66 is empty
Init ==
    /\ InitRest
    /\ hashes = EmptyMap
    /\ stamp = EmptyMap
    /\ arg = NoArg
    /\ ret = NoRet

\* ---------------------------------------------------------------- buildSite
\* where control goes when buildSite returns: main goes on to start the watcher
\* (serve) or ends (build); the watcher goes on to notifyLiveReload
After(w) ==
    IF w = "main" THEN (IF mode = "serve" THEN "spawn" ELSE "exit") ELSE "notify"

\* buildSite returns
Return(res) ==
    /\ bpc' = "idle"
    /\ result' = res
    /\ wpc' = After(wpc)
    /\ owed' = IF wpc = "wbuild"
               THEN [s \in Sessions |-> owed[s] \/ (spc[s] = "loop" /\ ~gone[s])]
               ELSE owed

\* what is left of a build's record once its caller has moved on: buildSite's
\* locals are dead, the claims only look back at how the build went
Settled(r) ==
    [NoRun EXCEPT !.procDone = r.procDone, !.edits0 = r.edits0, !.unwritten = r.unwritten]

\* a variant of the force branch that keeps the map
CacheAtStartKeep(force, hs) == hs

\* lines 142-147: a forced build starts from a fresh FileHashes map
CacheAtStart(force, hs) == IF force THEN EmptyMap ELSE hs

\* a variant where the caller starts buildSite and goes back to its select
CallerDuringAsync(caller) == IF caller = "wbuild" THEN "watch" ELSE caller

\* buildSite is an ordinary call (lines 274 and 371): its caller stays in the
\* call until it returns
CallerDuring(caller) == caller

\* buildSite(force) up to the template loading (lines 139-174)
StartBuild(force, caller) ==
    /\ bpc = "idle"
    /\ prev' = IF result = "none" THEN NoPrev
               ELSE [valid |-> TRUE, procDone |-> run.procDone, edits0 |-> run.edits0,
                     unwritten |-> run.unwritten]
    /\ hashes' = CacheAtStart(force, hashes)
    /\ stamp' = CacheAtStart(force, stamp)
    /\ changedFiles' = <<>>
    /\ posts' = <<>>
    /\ idx' = 1
    /\ ridx' = 1
    /\ \E tmplOK \in BOOLEAN :
          /\ run' = [NoRun EXCEPT !.force = force, !.edits0 = edits, !.hashes0 = hashes,
                                  !.lastBuild0 = lastBuild,
                                  !.why = IF tmplOK THEN "none" ELSE "tmpl"]
          /\ IF tmplOK
             THEN /\ bpc' = "scan"
                  /\ result' = "running"
                  /\ wpc' = CallerDuring(caller)
                  /\ owed' = owed
             ELSE /\ bpc' = "idle"
                  /\ result' = "fail"
                  /\ wpc' = After(caller)
                  /\ owed' = IF caller = "wbuild"
                             THEN [s \in Sessions |->
                                      owed[s] \/ (spc[s] = "loop" /\ ~gone[s])]
                             ELSE owed
    /\ UNCHANGED <<lastBuild, pub>>

\* main: buildSite(force) for "build", serveSite's first buildSite(false) for "serve"
MainBuild ==
    /\ wpc = "main"
    /\ result = "none"
    /\ StartBuild(mode = "force", "main")
    /\ UNCHANGED hostVars
    /\ UNCHANGED <<mode, ev>>
    /\ UNCHANGED envVars
    /\ UNCHANGED sessVars

\* a variant whose first pass stores the fingerprint of each file it finds changed
ScanStore ==
    /\ bpc = "scan"
    /\ \E listed \in BOOLEAN :
          IF listed
          THEN /\ changedFiles' = ScanChanged(fs, hashes)
               /\ hashes' = [q \in DOMAIN hashes \cup
                                    {changedFiles'[i] : i \in 1..Len(changedFiles')} |->
                                IF calculateFileHash(fs, q).err
                                THEN <<>>
                                ELSE calculateFileHash(fs, q).hash]
               /\ run' = [run EXCEPT !.scanned = TRUE]
               /\ bpc' = "proc"
               /\ UNCHANGED <<result, wpc, owed>>
          ELSE /\ Return("fail")
               /\ run' = [run EXCEPT !.why = "list"]
               /\ UNCHANGED <<changedFiles, hashes>>
    /\ UNCHANGED hostVars
    /\ UNCHANGED <<mode, ev, lastBuild, stamp, pub, idx, posts, ridx, prev>>
    /\ UNCHANGED envVars
    /\ UNCHANGED sessVars

\* processContentFolder, first pass (lines 415-445)
Scan ==
    /\ bpc = "scan"
    /\ \E listed \in BOOLEAN :
          IF listed
          THEN /\ changedFiles' = ScanChanged(fs, hashes)
               /\ run' = [run EXCEPT !.scanned = TRUE]
               /\ bpc' = "proc"
               /\ UNCHANGED <<result, wpc, owed>>
          ELSE /\ Return("fail")
               /\ run' = [run EXCEPT !.why = "list"]
               /\ UNCHANGED changedFiles
    /\ UNCHANGED hostVars
    /\ UNCHANGED <<mode, ev, hashes, lastBuild, stamp, pub, idx, posts, ridx, prev>>
    /\ UNCHANGED envVars
    /\ UNCHANGED sessVars

\* a variant that logs a failed read and goes on with the next changed file
ProcReadSkip ==
    /\ bpc = "proc"
    /\ idx <= Len(changedFiles)
    /\ LET path == changedFiles[idx]
           content == Entry(fs, path).content
       IN  IF ReadOK(fs, path)
           THEN /\ posts' = IF Retained(content)
                            THEN Append(posts, MakePost(path, content))
                            ELSE posts
                /\ run' = [run EXCEPT !.log = Append(@, [path |-> path, content |-> content])]
                /\ bpc' = "upd"
                /\ idx' = idx
           ELSE /\ run' = [run EXCEPT !.why = "read"]
                /\ idx' = idx + 1
                /\ UNCHANGED <<posts, bpc>>
    /\ UNCHANGED hostVars
    /\ UNCHANGED <<mode, ev, hashes, lastBuild, stamp, pub, changedFiles, ridx, prev,
                   result, wpc, owed>>
    /\ UNCHANGED envVars
    /\ UNCHANGED sessVars

\* second pass, one changed file: read, parse, AddPost (lines 448-490)
ProcRead ==
    /\ bpc = "proc"
    /\ idx <= Len(changedFiles)
    /\ LET path == changedFiles[idx]
           content == Entry(fs, path).content
       IN  IF ReadOK(fs, path)
           THEN /\ posts' = IF Retained(content)
                            THEN Append(posts, MakePost(path, content))
                            ELSE posts
                /\ run' = [run EXCEPT !.log = Append(@, [path |-> path, content |-> content])]
                /\ bpc' = "upd"
                /\ UNCHANGED <<result, wpc, owed>>
           ELSE /\ Return("fail")
                /\ run' = [run EXCEPT !.why = "read"]
                /\ UNCHANGED posts
    /\ UNCHANGED hostVars
    /\ UNCHANGED <<mode, ev, hashes, lastBuild, stamp, pub, changedFiles, idx, ridx, prev>>
    /\ UNCHANGED envVars
    /\ UNCHANGED sessVars

\* a variant that sets LastBuild but stores no fingerprint
updateFileNoStore(fsys, hs, lb, now, path) ==
    LET h == calculateFileHash(fsys, path)
    IN  [err |-> h.err, hashes |-> hs, lastBuild |-> IF h.err THEN lb ELSE now]

\* BuildCache.updateFile: the new FileHashes and LastBuild, or no change on error
updateFile(fsys, hs, lb, now, path) ==
    LET h == calculateFileHash(fsys, path)
    IN  IF h.err
        THEN [err |-> TRUE, hashes |-> hs, lastBuild |-> lb]
        ELSE [err |-> FALSE,
              hashes |-> [q \in DOMAIN hs \cup {path} |-> IF q = path THEN h.hash ELSE hs[q]],
              lastBuild |-> now]

\* a variant that gives up the build when updateFile fails
ProcUpdateAbort ==
    /\ bpc = "upd"
    /\ LET path == changedFiles[idx]
           u == updateFile(fs, hashes, lastBuild, clock, path)
       IN  IF u.err
           THEN /\ Return("fail")
                /\ UNCHANGED <<hashes, lastBuild, run, stamp, idx>>
           ELSE /\ hashes' = u.hashes
                /\ lastBuild' = u.lastBuild
                /\ run' = [run EXCEPT !.updated = @ \cup {path}]
                /\ stamp' = [q \in DOMAIN stamp \cup {path} |->
                                IF q = path
                                THEN [content |-> Entry(fs, path).content,
                                      size |-> ByteLen(Entry(fs, path).content),
                                      mtime |-> Entry(fs, path).mtime]
                                ELSE stamp[q]]
                /\ idx' = idx + 1
                /\ bpc' = "proc"
                /\ UNCHANGED <<wpc, result, owed>>
    /\ UNCHANGED hostVars
    /\ UNCHANGED <<mode, ev, pub, changedFiles, posts, ridx, prev>>
    /\ UNCHANGED envVars
    /\ UNCHANGED sessVars

\* second pass, the same file: buildCache.updateFile (lines 492-495)
ProcUpdate ==
    /\ bpc = "upd"
    /\ LET path == changedFiles[idx]
           u == updateFile(fs, hashes, lastBuild, clock, path)
       IN  /\ hashes' = u.hashes
           /\ lastBuild' = u.lastBuild
           /\ run' = IF u.err THEN run ELSE [run EXCEPT !.updated = @ \cup {path}]
           /\ stamp' = IF u.err THEN stamp
                        ELSE [q \in DOMAIN stamp \cup {path} |->
                                 IF q = path
                                 THEN [content |-> Entry(fs, path).content,
                                       size |-> ByteLen(Entry(fs, path).content),
                                       mtime |-> Entry(fs, path).mtime]
                                 ELSE stamp[q]]
    /\ idx' = idx + 1
    /\ bpc' = "proc"
    /\ UNCHANGED hostVars
    /\ UNCHANGED <<mode, ev, pub, wpc, changedFiles, posts, ridx, result, prev, owed>>
    /\ UNCHANGED envVars
    /\ UNCHANGED sessVars

\* processContentFolder returns nil (lines 498-504)
ProcEnd ==
    /\ bpc = "proc"
    /\ idx > Len(changedFiles)
    /\ bpc' = "render"
    /\ run' = [run EXCEPT !.procDone = TRUE]
    /\ UNCHANGED hostVars
    /\ UNCHANGED <<mode, ev, hashes, lastBuild, stamp, pub, wpc, changedFiles, idx, posts,
                   ridx, result, prev, owed>>
    /\ UNCHANGED envVars
    /\ UNCHANGED sessVars

\* the page renderPost and writeHTMLFile produce for a post
PageOf(post) == [src |-> post.src, Title |-> post.Title, Body |-> post.Content]

\* a variant that logs a failed render or write and goes on with the next post
RenderWriteSkip ==
    /\ bpc = "render"
    /\ ridx <= Len(posts)
    /\ LET post == posts[ridx]
       IN  \E outcome \in {"ok", "render", "write"} :
              IF outcome = "ok"
              THEN /\ pub' = [g \in DOMAIN pub \cup {post.Slug} |->
                                 IF g = post.Slug THEN PageOf(post) ELSE pub[g]]
                   /\ run' = [run EXCEPT !.written = @ \cup {post.src}]
              ELSE /\ run' = [run EXCEPT !.why = outcome]
                   /\ UNCHANGED pub
    /\ ridx' = ridx + 1
    /\ UNCHANGED hostVars
    /\ UNCHANGED <<mode, ev, hashes, lastBuild, stamp, changedFiles, idx, posts, prev,
                   bpc, result, wpc, owed>>
    /\ UNCHANGED envVars
    /\ UNCHANGED sessVars

\* buildSite's loop, one post: renderPost then writeHTMLFile (lines 190-205)
RenderWrite ==
    /\ bpc = "render"
    /\ ridx <= Len(posts)
    /\ LET post == posts[ridx]
       IN  \E outcome \in {"ok", "render", "write"} :
              IF outcome = "ok"
              THEN /\ pub' = [g \in DOMAIN pub \cup {post.Slug} |->
                                 IF g = post.Slug THEN PageOf(post) ELSE pub[g]]
                   /\ run' = [run EXCEPT !.written = @ \cup {post.src}]
                   /\ ridx' = ridx + 1
                   /\ UNCHANGED <<bpc, result, wpc, owed>>
              ELSE /\ Return("fail")
                   /\ run' = [run EXCEPT !.why = outcome,
                                         !.unwritten = {posts[j].src : j \in ridx..Len(posts)}]
                   /\ UNCHANGED <<pub, ridx>>
    /\ UNCHANGED hostVars
    /\ UNCHANGED <<mode, ev, hashes, lastBuild, stamp, changedFiles, idx, posts, prev>>
    /\ UNCHANGED envVars
    /\ UNCHANGED sessVars

\* buildSite reaches "Build complete" (line 207)
BuildEnd ==
    /\ bpc = "render"
    /\ ridx > Len(posts)
    /\ Return("ok")
    /\ UNCHANGED hostVars
    /\ UNCHANGED <<mode, ev, hashes, lastBuild, stamp, pub, changedFiles, idx, posts, ridx,
                   run, prev>>
    /\ UNCHANGED envVars
    /\ UNCHANGED sessVars

\* ----------------------------------------------------------------- main
\* the process of a build command has ended and the user runs another build
\* command: the new process starts with the globals of lines 63-66, an empty
\* FileHashes map, and main goes straight to buildSite (lines 76-79); the
\* content directory and public/ are what the last process left
NewCommand(m) ==
    /\ wpc = "exit"
    /\ mode' = m
    /\ left' = [valid |-> TRUE, hashes |-> hashes]
    /\ hashes' = EmptyMap
    /\ stamp' = EmptyMap
    /\ lastBuild' = -1
    /\ wpc' = "main"
    /\ bpc' = "idle"
    /\ result' = "none"
    /\ run' = NoRun
    /\ prev' = NoPrev
    /\ changedFiles' = <<>>
    /\ posts' = <<>>
    /\ idx' = 1
    /\ ridx' = 1
    /\ UNCHANGED <<pub, ev, owed, pend, disk, lerr>>
    /\ UNCHANGED <<arg, ret>>
    /\ UNCHANGED envVars
    /\ UNCHANGED sessVars

\* ------------------------------------------------------- cache persistence
\* the maps FileHashes can be, over the paths and fingerprints of two files
Fingerprints == {Sprintf(ByteLen(DocPlain), 0), Sprintf(ByteLen(DocFm), 1)}
CacheMaps == UNION {[D -> Fingerprints] : D \in SUBSET {PathOf(f) : f \in Files}}

\* what .buildcache can hold: nothing (no file), bytes that are not JSON, JSON
\* that is not an object of strings (an array, say), or the object of a map
DiskFiles ==
    {NoFile, [kind |-> "syntax", obj |-> EmptyMap], [kind |-> "type", obj |-> EmptyMap]}
        \cup {[kind |-> "object", obj |-> m] : m \in CacheMaps}

\* json.Marshal of a map[string]string: the JSON object of its entries
Marshal(hs) == [kind |-> "object", obj |-> hs]

\* json.Unmarshal(data, &bc.FileHashes): invalid JSON and JSON of another type
\* give an error and leave the map alone; an object is decoded into the map
\* that is there, whose other entries stay
Unmarshal(d, hs) ==
    IF d.kind = "object"
    THEN [err |-> FALSE,
          hashes |-> [q \in DOMAIN hs \cup DOMAIN d.obj |->
                         IF q \in DOMAIN d.obj THEN d.obj[q] ELSE hs[q]]]
    ELSE [err |-> TRUE, hashes |-> hs]

\* BuildCache.Load (lines 517-523): a file that cannot be read is no error
Load(d, hs) ==
    IF d.kind = "missing" THEN [err |-> FALSE, hashes |-> hs] ELSE Unmarshal(d, hs)

\* BuildCache.Save (lines 509-515): os.WriteFile writes the whole object, or
\* fails before creating or truncating the file, or fails after truncating it
Save(hs, d, outcome) ==
    CASE outcome = "ok" -> [err |-> FALSE, disk |-> Marshal(hs)]
      [] outcome = "denied" -> [err |-> TRUE, disk |-> d]
      [] outcome = "short" -> [err |-> TRUE, disk |-> [kind |-> "syntax", obj |-> EmptyMap]]

\* a call of buildCache.Load()
DoLoad ==
    /\ LET l == Load(disk, hashes)
       IN  /\ hashes' = l.hashes
           /\ lerr' = [op |-> "load", err |-> l.err, fresh |-> hashes = EmptyMap]
    /\ UNCHANGED <<mode, wpc, ev, owed, pend, left, disk>>
    /\ UNCHANGED <<arg, ret>>
    /\ UNCHANGED <<lastBuild, stamp, pub, bpc, changedFiles, idx, posts, ridx, result, run, prev>>
    /\ UNCHANGED envVars
    /\ UNCHANGED sessVars

\* a call of buildCache.Save()
DoSave(outcome) ==
    /\ LET w == Save(hashes, disk, outcome)
       IN  /\ disk' = w.disk
           /\ lerr' = [op |-> "save", err |-> w.err, fresh |-> FALSE]
    /\ UNCHANGED <<mode, wpc, ev, owed, pend, left>>
    /\ UNCHANGED <<arg, ret>>
    /\ UNCHANGED buildVars
    /\ UNCHANGED envVars
    /\ UNCHANGED sessVars

\* something else replaces or removes .buildcache
DiskChange(d) ==
    /\ disk' = d
    /\ disk' # disk
    /\ lerr' = NoOp
    /\ UNCHANGED <<mode, wpc, ev, owed, pend, left>>
    /\ UNCHANGED <<arg, ret>>
    /\ UNCHANGED buildVars
    /\ UNCHANGED envVars
    /\ UNCHANGED sessVars

\* ------------------------------------------------------------ writeHTMLFile
\* "</body>"
BodyClose == <<60, 47, 98, 111, 100, 121, 62>>
LineFeed == <<10>>

\* liveReloadScript (lines 91-112), its first and last lines kept: a line
\* feed, "<script>", a line feed, "</script>", a line feed
liveReloadScript ==
    LineFeed \o <<60, 115, 99, 114, 105, 112, 116, 62>> \o LineFeed
             \o <<60, 47, 115, 99, 114, 105, 112, 116, 62>> \o LineFeed

\* strings.Index: where sub first occurs in s, 0 when it does not
Index(s, sub) ==
    LET at == {i \in 1..(Len(s) - Len(sub) + 1) : SubSeq(s, i, i + Len(sub) - 1) = sub}
    IN  IF at = {} THEN 0 ELSE CHOOSE i \in at : \A j \in at : i <= j

\* strings.Replace(s, old, new, 1) for a non-empty old
ReplaceFirst(s, old, new) ==
    LET i == Index(s, old)
    IN  IF i = 0 THEN s
        ELSE SubSeq(s, 1, i - 1) \o new \o SubSeq(s, i + Len(old), Len(s))

\* a variant that replaces the tag by the fragment
injectLiveReloadDropTag(html) ==
    IF Contains(html, BodyClose)
    THEN ReplaceFirst(html, BodyClose, liveReloadScript \o LineFeed)
    ELSE html \o liveReloadScript

\* lines 623-631
injectLiveReload(html) ==
    IF Contains(html, BodyClose)
    THEN ReplaceFirst(html, BodyClose, liveReloadScript \o LineFeed \o BodyClose)
    ELSE html \o liveReloadScript

\* injectLiveReload applied to an HTML string
ApplyInject ==
    /\ arg.fn = "injectLiveReload"
    /\ ~ret.done
    /\ ret' = [done |-> TRUE, val |-> injectLiveReload(arg.x)]
    /\ UNCHANGED <<mode, wpc, ev, owed, pend, left, disk, lerr, arg>>
    /\ UNCHANGED buildVars
    /\ UNCHANGED envVars
    /\ UNCHANGED sessVars

\* extractTitle applied to the name of a directory entry
ApplyExtractTitle ==
    /\ arg.fn = "extractTitle"
    /\ ~ret.done
    /\ ret' = [done |-> TRUE, val |-> extractTitle(arg.x)]
    /\ UNCHANGED <<mode, wpc, ev, owed, pend, left, disk, lerr, arg>>
    /\ UNCHANGED buildVars
    /\ UNCHANGED envVars
    /\ UNCHANGED sessVars

\* ------------------------------------------------------------- environment
\* the content directory changes: a file is written (created or overwritten)
WriteFile(f, c) ==
    /\ edits < MaxEdits
    /\ wpc # "exit"
    /\ fs' = [fs EXCEPT ![f] = [present |-> TRUE, content |-> c, mtime |-> clock,
                                access |-> IF fs[f].present THEN fs[f].access ELSE "ok"]]
    /\ fs' # fs
    /\ edits' = edits + 1
    /\ UNCHANGED hostVars
    /\ UNCHANGED <<mode, clock, wpc, ev, owed>>
    /\ UNCHANGED buildVars
    /\ UNCHANGED sessVars

\* a file is removed
RemoveFile(f) ==
    /\ edits < MaxEdits
    /\ wpc # "exit"
    /\ fs[f].present
    /\ fs' = [fs EXCEPT ![f] = Absent]
    /\ edits' = edits + 1
    /\ UNCHANGED hostVars
    /\ UNCHANGED <<mode, clock, wpc, ev, owed>>
    /\ UNCHANGED buildVars
    /\ UNCHANGED sessVars

\* a file's permissions change, or the target of a link appears or disappears
Chmod(f, a) ==
    /\ edits < MaxEdits
    /\ wpc # "exit"
    /\ fs[f].present
    /\ fs[f].access # a
    /\ fs' = [fs EXCEPT ![f].access = a]
    /\ edits' = edits + 1
    /\ UNCHANGED hostVars
    /\ UNCHANGED <<mode, clock, wpc, ev, owed>>
    /\ UNCHANGED buildVars
    /\ UNCHANGED sessVars

\* a second passes
Tick ==
    /\ clock < MaxTime
    /\ wpc # "exit"
    /\ clock' = clock + 1
    /\ UNCHANGED hostVars
    /\ UNCHANGED <<mode, edits, fs, wpc, ev, owed>>
    /\ UNCHANGED buildVars
    /\ UNCHANGED sessVars

\* --------------------------------------------------------------- watchFiles
\* fsnotify.Op is a bit set
Has(op, flag) == flag \in op

\* events fsnotify delivers for the watched directory: Name is the directory
\* joined with the entry's name
Events ==
    {[name |-> PathOf(FileA), op |-> {"WRITE"}],
     [name |-> PathOf(FileA), op |-> {"CREATE"}],
     [name |-> PathOf(FileA), op |-> {"REMOVE"}],
     [name |-> PathOf(FileTxt), op |-> {"WRITE"}],
     [name |-> PathOf(TmpMd), op |-> {"WRITE"}],
     [name |-> PathOf(Tmp4913), op |-> {"CREATE"}]}

\* a variant that looks at the extension only
QualifiesAnyOp(e) == HasSuffix(e.name, MdExt)

\* the condition of line 368
Qualifies(e) == Has(e.op, "WRITE") /\ HasSuffix(e.name, MdExt)

\* serveSite starts the watcher goroutine; NewWatcher or Add may fail (lines 342-353)
WatchSetup ==
    /\ wpc = "spawn"
    /\ \E ok \in BOOLEAN : wpc' = IF ok THEN "watch" ELSE "stopped"
    /\ run' = Settled(run)
    /\ result' = "past"
    /\ changedFiles' = <<>>
    /\ posts' = <<>>
    /\ idx' = 1
    /\ ridx' = 1
    /\ prev' = NoPrev
    /\ UNCHANGED hostVars
    /\ UNCHANGED <<mode, ev, owed, hashes, lastBuild, stamp, pub, bpc>>
    /\ UNCHANGED envVars
    /\ UNCHANGED sessVars

\* the select of line 358 receives an event
WatchRecv(e) ==
    /\ wpc = "watch"
    /\ wpc' = "got"
    /\ ev' = e
    /\ UNCHANGED hostVars
    /\ UNCHANGED <<mode, owed>>
    /\ UNCHANGED envVars
    /\ UNCHANGED buildVars
    /\ UNCHANGED sessVars

\* lines 364-371: drop the event, or call buildSite(false)
WatchDispatch ==
    /\ wpc = "got"
    /\ IF ~isEditorTempFile(ev.name) /\ Qualifies(ev)
       THEN /\ StartBuild(FALSE, "wbuild")
            /\ UNCHANGED hostVars
            /\ UNCHANGED <<mode, ev>>
       ELSE /\ wpc' = "watch"
            /\ ev' = IF isEditorTempFile(ev.name) THEN ev ELSE NoEvent
            /\ UNCHANGED hostVars
            /\ UNCHANGED <<mode, owed>>
            /\ UNCHANGED buildVars
    /\ UNCHANGED envVars
    /\ UNCHANGED sessVars

\* what the select last received when it was not an event: an error from
\* watcher.Errors, or the zero value of a closed channel
ErrItem == [name |-> <<>>, op |-> {"ERROR"}]
ClosedItem == [name |-> <<>>, op |-> {"CLOSED"}]

\* the watcher goroutine is in its loop
InLoop == wpc \in {"watch", "got", "wbuild", "notify", "nloop"}

\* events of every kind fsnotify reports, for the watcher on its own
WatchEvents ==
    Events \cup
    {[name |-> PathOf(FileA), op |-> {"RENAME"}],
     [name |-> PathOf(FileA), op |-> {"CHMOD"}],
     [name |-> PathOf(FileA), op |-> {"WRITE", "CHMOD"}],
     [name |-> PathOf(FileUpperA), op |-> {"WRITE"}],
     [name |-> PathOf(FileTxt), op |-> {"CREATE"}]}

\* fsnotify's reader has an event and blocks sending it on watcher.Events,
\* which is unbuffered: one event waits at a time
Arrive(e) ==
    /\ InLoop
    /\ pend = NoEvent
    /\ pend' = e
    /\ UNCHANGED <<mode, wpc, ev, owed, left, disk, lerr>>
    /\ UNCHANGED <<arg, ret>>
    /\ UNCHANGED envVars
    /\ UNCHANGED buildVars
    /\ UNCHANGED sessVars

\* the select of line 358 receives the waiting event (line 359)
WatchTake ==
    /\ wpc = "watch"
    /\ pend # NoEvent
    /\ wpc' = "got"
    /\ ev' = pend
    /\ pend' = NoEvent
    /\ UNCHANGED <<mode, owed, left, disk, lerr>>
    /\ UNCHANGED <<arg, ret>>
    /\ UNCHANGED envVars
    /\ UNCHANGED buildVars
    /\ UNCHANGED sessVars

\* a variant that returns on a watcher error
WatchErrorFatal ==
    /\ wpc = "watch"
    /\ wpc' = "closed"
    /\ ev' = ErrItem
    /\ UNCHANGED <<mode, owed>>
    /\ UNCHANGED hostVars
    /\ UNCHANGED envVars
    /\ UNCHANGED buildVars
    /\ UNCHANGED sessVars

\* the select receives an error from watcher.Errors and logs it (lines 378-382)
WatchError ==
    /\ wpc = "watch"
    /\ wpc' = "watch"
    /\ ev' = ErrItem
    /\ UNCHANGED <<mode, owed>>
    /\ UNCHANGED hostVars
    /\ UNCHANGED envVars
    /\ UNCHANGED buildVars
    /\ UNCHANGED sessVars

\* watcher.Events or watcher.Errors is closed: the receive yields !ok and
\* watchFiles returns (lines 360-362 and 379-381)
WatchClosed ==
    /\ wpc = "watch"
    /\ wpc' = "closed"
    /\ ev' = ClosedItem
    /\ UNCHANGED <<mode, owed>>
    /\ UNCHANGED hostVars
    /\ UNCHANGED envVars
    /\ UNCHANGED buildVars
    /\ UNCHANGED sessVars

\* --------------------------------------------------------- notifyLiveReload
\* a variant with room for two values
ChanCapTwo == 1 + 1

\* capacity of reloadChan (make(chan bool, 1))
ChanCap == 1

\* a variant whose send always goes through
TrySendAlways(n) == TRUE

\* the select of lines 127-133 on one channel: whether the send goes through
TrySend(n) == n < ChanCap

\* liveReloadMutex.Lock() and the start of the range
NotifyLock ==
    /\ wpc = "notify"
    /\ lock = "free"
    /\ lock' = "watcher"
    /\ todo' = registry
    /\ bc' = [NoBroadcast EXCEPT !.start = registry]
    /\ wpc' = "nloop"
    /\ UNCHANGED hostVars
    /\ UNCHANGED <<mode, ev, registry, chan, spc, gone, owed>>
    /\ UNCHANGED envVars
    /\ UNCHANGED buildVars

\* a variant whose send blocks until the channel has room
NotifySendBlocking(s) ==
    /\ wpc = "nloop"
    /\ s \in todo
    /\ chan[s] < ChanCap
    /\ todo' = todo \ {s}
    /\ chan' = [chan EXCEPT ![s] = @ + 1]
    /\ bc' = [bc EXCEPT !.sent[s] = @ + 1]
    /\ UNCHANGED hostVars
    /\ UNCHANGED <<mode, wpc, ev, registry, spc, gone, lock, owed>>
    /\ UNCHANGED envVars
    /\ UNCHANGED buildVars

\* one iteration of the range: non-blocking send, delete on failure
NotifySend(s) ==
    /\ wpc = "nloop"
    /\ s \in todo
    /\ todo' = todo \ {s}
    /\ IF TrySend(chan[s])
       THEN /\ chan' = [chan EXCEPT ![s] = @ + 1]
            /\ UNCHANGED registry
       ELSE /\ registry' = registry \ {s}
            /\ UNCHANGED chan
    /\ bc' = [bc EXCEPT !.full = IF chan[s] >= ChanCap THEN @ \cup {s} ELSE @,
                         !.sent[s] = IF TrySend(chan[s]) THEN @ + 1 ELSE @]
    /\ UNCHANGED hostVars
    /\ UNCHANGED <<mode, wpc, ev, spc, gone, lock, owed>>
    /\ UNCHANGED envVars
    /\ UNCHANGED buildVars

\* the range is over: deferred Unlock, back to the select
NotifyUnlock ==
    /\ wpc = "nloop"
    /\ todo = {}
    /\ lock' = "free"
    /\ bc' = NoBroadcast
    /\ wpc' = "watch"
    /\ ev' = NoEvent
    /\ run' = Settled(run)
    /\ result' = "past"
    /\ changedFiles' = <<>>
    /\ posts' = <<>>
    /\ idx' = 1
    /\ ridx' = 1
    /\ UNCHANGED hostVars
    /\ UNCHANGED <<mode, registry, chan, spc, gone, todo, owed>>
    /\ prev' = NoPrev
    /\ UNCHANGED <<hashes, lastBuild, stamp, pub, bpc>>
    /\ UNCHANGED envVars

\* --------------------------------------------------------- handleLiveReload
\* a request arrives: headers, clientID, make(chan bool, 1) (lines 299-308)
Open(s) ==
    /\ mode = "serve"
    /\ wpc \notin {"main", "exit"}
    /\ spc[s] = "none"
    /\ spc' = [spc EXCEPT ![s] = "reg"]
    /\ chan' = [chan EXCEPT ![s] = 0]
    /\ gone' = [gone EXCEPT ![s] = FALSE]
    /\ UNCHANGED hostVars
    /\ UNCHANGED <<mode, wpc, ev, registry, lock, todo, bc, owed>>
    /\ UNCHANGED envVars
    /\ UNCHANGED buildVars

\* lines 310-312
Register(s) ==
    /\ spc[s] = "reg"
    /\ lock = "free"
    /\ registry' = registry \cup {s}
    /\ spc' = [spc EXCEPT ![s] = "loop"]
    /\ UNCHANGED hostVars
    /\ UNCHANGED <<mode, wpc, ev, chan, gone, lock, todo, bc, owed>>
    /\ UNCHANGED envVars
    /\ UNCHANGED buildVars

\* case <-reloadChan: write "data: reload" and flush (lines 327-330)
Recv(s) ==
    /\ spc[s] = "loop"
    /\ chan[s] > 0
    /\ chan' = [chan EXCEPT ![s] = @ - 1]
    /\ owed' = [owed EXCEPT ![s] = FALSE]
    /\ UNCHANGED hostVars
    /\ UNCHANGED <<mode, wpc, ev, registry, spc, gone, lock, todo, bc>>
    /\ UNCHANGED envVars
    /\ UNCHANGED buildVars

\* the client goes away: the request context is cancelled
Disconnect(s) ==
    /\ spc[s] \in {"reg", "loop"}
    /\ ~gone[s]
    /\ gone' = [gone EXCEPT ![s] = TRUE]
    /\ UNCHANGED hostVars
    /\ UNCHANGED <<mode, wpc, ev, registry, chan, spc, lock, todo, bc, owed>>
    /\ UNCHANGED envVars
    /\ UNCHANGED buildVars

\* case <-r.Context().Done(): return (lines 332-334)
CtxDone(s) ==
    /\ spc[s] = "loop"
    /\ gone[s]
    /\ spc' = [spc EXCEPT ![s] = "defer"]
    /\ UNCHANGED hostVars
    /\ UNCHANGED <<mode, wpc, ev, registry, chan, gone, lock, todo, bc, owed>>
    /\ UNCHANGED envVars
    /\ UNCHANGED buildVars

\* a variant whose deferred function empties the registry
DeregisterAll(s) ==
    /\ spc[s] = "defer"
    /\ lock = "free"
    /\ registry' = {}
    /\ spc' = [spc EXCEPT ![s] = "none"]
    /\ chan' = [chan EXCEPT ![s] = 0]
    /\ gone' = [gone EXCEPT ![s] = FALSE]
    /\ owed' = [owed EXCEPT ![s] = FALSE]
    /\ UNCHANGED hostVars
    /\ UNCHANGED <<mode, wpc, ev, lock, todo, bc>>
    /\ UNCHANGED envVars
    /\ UNCHANGED buildVars

\* a variant whose deferred function forgets the delete
DeregisterKeep(s) ==
    /\ spc[s] = "defer"
    /\ lock = "free"
    /\ spc' = [spc EXCEPT ![s] = "none"]
    /\ chan' = [chan EXCEPT ![s] = 0]
    /\ gone' = [gone EXCEPT ![s] = FALSE]
    /\ owed' = [owed EXCEPT ![s] = FALSE]
    /\ UNCHANGED hostVars
    /\ UNCHANGED <<mode, wpc, ev, registry, lock, todo, bc>>
    /\ UNCHANGED envVars
    /\ UNCHANGED buildVars

\* the deferred function (lines 317-322)
Deregister(s) ==
    /\ spc[s] = "defer"
    /\ lock = "free"
    /\ registry' = registry \ {s}
    /\ spc' = [spc EXCEPT ![s] = "none"]
    /\ chan' = [chan EXCEPT ![s] = 0]
    /\ gone' = [gone EXCEPT ![s] = FALSE]
    /\ owed' = [owed EXCEPT ![s] = FALSE]
    /\ UNCHANGED hostVars
    /\ UNCHANGED <<mode, wpc, ev, lock, todo, bc>>
    /\ UNCHANGED envVars
    /\ UNCHANGED buildVars

\* ----------------------------------------------------------- specifications
\* the build engine and the watcher, with no live-reload client
Next ==
    \/ MainBuild
    \/ Scan
    \/ ProcRead
    \/ ProcUpdate
    \/ ProcEnd
    \/ RenderWrite
    \/ BuildEnd
    \/ WatchSetup
    \/ \E e \in Events : WatchRecv(e)
    \/ WatchDispatch
    \/ NotifyLock
    \/ NotifyUnlock
    \/ \E f \in Files, c \in Contents : WriteFile(f, c)
    \/ \E f \in Files : RemoveFile(f)
    \/ \E f \in Files, a \in Access : Chmod(f, a)
    \/ Tick

Spec == Init /\ [][Next]_vars

\* the serve command with live-reload clients, over a content directory that
\* holds one plain file and does not change
ReloadFs == [f \in Files |-> IF f = FileA
                             THEN [present |-> TRUE, content |-> DocPlain, mtime |-> 0,
                                   access |-> "ok"]
                             ELSE Absent]

InitReload == Init /\ mode = "serve" /\ fs = ReloadFs

NextReload ==
    \/ MainBuild
    \/ Scan
    \/ ProcRead
    \/ ProcUpdate
    \/ ProcEnd
    \/ RenderWrite
    \/ BuildEnd
    \/ WatchSetup
    \/ \E e \in Events : WatchRecv(e)
    \/ WatchDispatch
    \/ NotifyLock
    \/ \E s \in Sessions : NotifySend(s)
    \/ NotifyUnlock
    \/ \E s \in Sessions : Open(s)
    \/ \E s \in Sessions : Register(s)
    \/ \E s \in Sessions : Recv(s)
    \/ \E s \in Sessions : Disconnect(s)
    \/ \E s \in Sessions : CtxDone(s)
    \/ \E s \in Sessions : Deregister(s)

SpecReload == InitReload /\ [][NextReload]_vars

\* the steps the Go scheduler runs whenever they can run: the watcher goroutine
\* outside its select, and each handler goroutine; what the environment does
\* (file events, requests, disconnects) is under no obligation
WatcherRuns ==
    \/ Scan
    \/ ProcRead
    \/ ProcUpdate
    \/ ProcEnd
    \/ RenderWrite
    \/ BuildEnd
    \/ WatchDispatch
    \/ NotifyLock
    \/ \E s \in Sessions : NotifySend(s)
    \/ NotifyUnlock

FairReload ==
    /\ SpecReload
    /\ WF_vars(WatcherRuns)
    /\ \A s \in Sessions : WF_vars(Recv(s))
    /\ \A s \in Sessions : WF_vars(Register(s))
    /\ \A s \in Sessions : WF_vars(CtxDone(s))
    /\ \A s \in Sessions : WF_vars(Deregister(s))

\* build commands run one after the other over a content directory that does
\* not change
InitRuns == Init /\ mode \in {"build", "force"}

NextRuns ==
    \/ MainBuild
    \/ Scan
    \/ ProcRead
    \/ ProcUpdate
    \/ ProcEnd
    \/ RenderWrite
    \/ BuildEnd
    \/ \E m \in {"build", "force"} : NewCommand(m)

SpecRuns == InitRuns /\ [][NextRuns]_vars

\* Save and Load on their own, called in any order on a cache that starts
\* empty, over a cache file that anything may have written
InitCacheFile == Init /\ mode = "build" /\ fs = ReloadFs

NextCacheFile ==
    \/ DoLoad
    \/ \E outcome \in {"ok", "denied", "short"} : DoSave(outcome)
    \/ \E d \in DiskFiles : DiskChange(d)

SpecCacheFile == InitCacheFile /\ [][NextCacheFile]_vars

\* the file a fingerprint of Fingerprints was computed from
StampOf(h) ==
    IF h = Sprintf(ByteLen(DocPlain), 0)
    THEN [content |-> DocPlain, size |-> ByteLen(DocPlain), mtime |-> 0]
    ELSE [content |-> DocFm, size |-> ByteLen(DocFm), mtime |-> 1]

\* buildSite(true) on its own, called on any cache map
InitForce ==
    /\ InitRest
    /\ mode = "force"
    /\ hashes \in CacheMaps
    /\ stamp = [q \in DOMAIN hashes |-> StampOf(hashes[q])]
    /\ arg = NoArg
    /\ ret = NoRet

NextForce ==
    \/ MainBuild
    \/ Scan
    \/ ProcRead
    \/ ProcUpdate
    \/ ProcEnd
    \/ RenderWrite
    \/ BuildEnd

SpecForce == InitForce /\ [][NextForce]_vars

\* HTML strings: up to MaxPieces pieces among "x", "<body>", "</body>", the
\* truncated tag "</bod" and the script itself
HtmlPieces ==
    {<<120>>, <<60, 98, 111, 100, 121, 62>>, BodyClose, SubSeq(BodyClose, 1, 5),
     liveReloadScript}

RECURSIVE Concats(_)
Concats(n) ==
    IF n = 0 THEN {<<>>}
    ELSE Concats(n - 1) \cup {h \o q : h \in Concats(n - 1), q \in HtmlPieces}

\* names the scanner accepts: every first byte a file name can have, then
\* ".md", and two names of two letters
TitleNames ==
    {<<b>> \o MdExt : b \in (1..255) \ {47}}
        \cup {<<97, 98>> \o MdExt, <<65, 98>> \o MdExt}

PureArgs ==
    {[fn |-> "injectLiveReload", x |-> h] : h \in Concats(MaxPieces)}
        \cup {[fn |-> "extractTitle", x |-> n] : n \in TitleNames}

\* injectLiveReload and extractTitle on their own, applied to one argument
InitPure ==
    /\ InitRest
    /\ mode = "build"
    /\ fs = ReloadFs
    /\ hashes = EmptyMap
    /\ stamp = EmptyMap
    /\ arg \in PureArgs
    /\ ret = NoRet

NextPure ==
    \/ ApplyInject
    \/ ApplyExtractTitle

SpecPure == InitPure /\ [][NextPure]_vars

\* the serve command with live-reload clients, the watcher receiving one event
\* that starts a build and one that does not
SessionEvents ==
    {[name |-> PathOf(FileA), op |-> {"WRITE"}],
     [name |-> PathOf(FileTxt), op |-> {"WRITE"}]}

NextSessions ==
    \/ MainBuild
    \/ Scan
    \/ ProcRead
    \/ ProcUpdate
    \/ ProcEnd
    \/ RenderWrite
    \/ BuildEnd
    \/ WatchSetup
    \/ \E e \in SessionEvents : WatchRecv(e)
    \/ WatchDispatch
    \/ NotifyLock
    \/ \E s \in Sessions : NotifySend(s)
    \/ NotifyUnlock
    \/ \E s \in Sessions : Open(s)
    \/ \E s \in Sessions : Register(s)
    \/ \E s \in Sessions : Recv(s)
    \/ \E s \in Sessions : Disconnect(s)
    \/ \E s \in Sessions : CtxDone(s)
    \/ \E s \in Sessions : Deregister(s)

SpecSessions == InitReload /\ [][NextSessions]_vars

\* the watcher and the handlers are scheduled, and the mutex hands the lock to
\* a goroutine that keeps waiting for it (sync.Mutex leaves no waiter starving)
FairLock ==
    /\ SpecSessions
    /\ WF_vars(WatcherRuns)
    /\ \A s \in Sessions : SF_vars(Register(s))
    /\ \A s \in Sessions : WF_vars(CtxDone(s))
    /\ \A s \in Sessions : SF_vars(Deregister(s))

\* a handler blocked in its select with a value in its channel receives it
FairRecv ==
    /\ SpecSessions
    /\ \A s \in Sessions : WF_vars(Recv(s))

\* the serve command seen from the watcher: events wait on watcher.Events
\* until the select takes them, errors arrive, the channels may be closed
NextWatch ==
    \/ MainBuild
    \/ Scan
    \/ ProcRead
    \/ ProcUpdate
    \/ ProcEnd
    \/ RenderWrite
    \/ BuildEnd
    \/ WatchSetup
    \/ \E e \in WatchEvents : Arrive(e)
    \/ WatchTake
    \/ WatchError
    \/ WatchClosed
    \/ WatchDispatch
    \/ NotifyLock
    \/ NotifyUnlock

SpecWatch == InitReload /\ [][NextWatch]_vars

\* the scheduler runs the watcher goroutine, and a select with a ready event
\* picks at random among its ready cases, so the event is picked in the end
FairWatch ==
    /\ SpecWatch
    /\ WF_vars(WatcherRuns)
    /\ WF_vars(WatchTake)

\* ------------------------------------------------------------------ claims
\* the build has returned
BuildOver == bpc = "idle" /\ result \in {"ok", "fail"}

\* the files the current build retained (called site.AddPost for)
RetainedSrc == {posts[i].src : i \in 1..Len(posts)}

\* C1: the cache entry of a non-draft file is stored by a build only after that
\* build has written the file's output
C1_UpdateAfterWrite ==
    \A path \in run.updated : path \in RetainedSrc => path \in run.written

\* no change was made to the content directory since the previous build began
Quiet == prev.valid /\ edits = prev.edits0

\* C2 as stated: after any first build, a second non-forced build with no content
\* change finds nothing changed, writes nothing, leaves the cache alone and succeeds
C2_Idempotent ==
    (BuildOver /\ ~run.force /\ Quiet)
        => /\ changedFiles = <<>>
           /\ run.written = {}
           /\ hashes = run.hashes0
           /\ lastBuild = run.lastBuild0
           /\ result = "ok"

\* C2 amended: the same, when the first build got through its process phase and
\* the second one loaded its templates and listed the directory
C2_IdempotentAfterProcess ==
    (BuildOver /\ ~run.force /\ Quiet /\ prev.procDone /\ run.scanned)
        => /\ changedFiles = <<>>
           /\ run.written = {}
           /\ hashes = run.hashes0
           /\ lastBuild = run.lastBuild0
           /\ result = "ok"

\* a second build that found nothing to do, with both files cached and a page written
C2_Witness ==
    /\ BuildOver /\ ~run.force /\ Quiet /\ prev.procDone /\ run.scanned
    /\ Cardinality(DOMAIN hashes) = 2
    /\ pub # EmptyMap

\* C3: a broadcast never waits, and when its range is over every session found
\* full is out of the registry and every other session of the registry got
\* exactly one value and is still registered
C3_Broadcast ==
    /\ wpc = "notify" => ENABLED NotifyLock
    /\ wpc = "nloop" => \A s \in todo : ENABLED NotifySend(s)
    /\ wpc = "nloop" /\ todo = {} =>
          /\ ENABLED NotifyUnlock
          /\ registry = bc.start \ bc.full
          /\ \A s \in bc.full : bc.sent[s] = 0
          /\ \A s \in bc.start \ bc.full : bc.sent[s] = 1 /\ chan[s] <= ChanCap
          /\ \A s \in Sessions \ bc.start : bc.sent[s] = 0

\* a broadcast over, in which one session was found full and another got its value
C3_Witness ==
    /\ wpc = "nloop"
    /\ todo = {}
    /\ bc.full # {}
    /\ \E s \in bc.start : bc.sent[s] = 1

\* C4: whenever a watcher build completes while a session is connected, a reload
\* is later emitted on that session, unless the client goes away
C4_ReloadAfterEveryBuild ==
    \A s \in Sessions : owed[s] ~> (~owed[s] \/ gone[s])

\* C5: the watcher calls notifyLiveReload only after a build that succeeded
C5_NotifyOnlyAfterSuccess ==
    wpc \in {"notify", "nloop"} => result = "ok"

\* the denylist applied to the whole path of the event
PathDenylisted(path) ==
    \E k \in 1..Len(tempPatterns) : Contains(path, tempPatterns[k])

\* C6: an event whose path contains a denylisted substring starts no build and
\* no broadcast, whatever its type and extension
C6_DenylistedNoBuild ==
    [][(wpc = "got" /\ PathDenylisted(ev.name) /\ wpc' # "got")
          => /\ wpc' = "watch"
             /\ UNCHANGED buildVars
             /\ UNCHANGED sessVars]_vars

\* the watcher is back at its select after dropping a write event on "b.tmp.md"
C6_Witness ==
    /\ wpc = "watch"
    /\ PathDenylisted(ev.name)
    /\ Qualifies(ev)

\* the entries of the current build's log whose front matter parsed with draft true
DraftLogged ==
    {i \in 1..Len(run.log) :
        LET p == parseMarkdownWithFrontMatter(run.log[i].content)
        IN  ~p.err /\ p.fm.Draft}

\* C7: a changed file whose front matter parses with draft true is not added to
\* site.Posts and the build writes no output for it
C7_DraftExcluded ==
    \A i \in DraftLogged :
        /\ run.log[i].path \notin RetainedSrc
        /\ run.log[i].path \notin run.written

\* a successful build that read a draft and wrote another file
C7_Witness ==
    /\ BuildOver
    /\ result = "ok"
    /\ DraftLogged # {}
    /\ run.written # {}

\* the entries of the current build's log whose front matter failed to parse
BadLogged ==
    {i \in 1..Len(run.log) : parseMarkdownWithFrontMatter(run.log[i].content).err}

\* C8: a changed file whose front matter fails to parse yields a post with the
\* file's content verbatim and title and slug from the file name, and the second
\* pass goes on: a build fails in that pass only at a file it has not logged
C8_FrontMatterFallback ==
    /\ \A i \in BadLogged :
          \E j \in 1..Len(posts) :
             /\ posts[j].src = run.log[i].path
             /\ posts[j].Content = run.log[i].content
             /\ posts[j].Title = extractTitle(Base(run.log[i].path))
             /\ posts[j].Slug = generateSlug(Base(run.log[i].path))
    /\ (BuildOver /\ result = "fail" /\ run.scanned /\ ~run.procDone)
          => idx = Len(run.log) + 1

\* a successful build that read a file with bad front matter, then another file,
\* and retained both
C8_Witness ==
    /\ BuildOver
    /\ result = "ok"
    /\ \E i \in BadLogged : i < Len(run.log)
    /\ Len(posts) = 2

\* the content files that are present and have a cache entry
Cached == {f \in Files : fs[f].present /\ PathOf(f) \in DOMAIN hashes}

\* C9 as stated: a cached file whose content differs from the content the entry
\* was stored for needs a rebuild
C9_ContentChange ==
    \A f \in Cached :
        fs[f].content # stamp[PathOf(f)].content => needsRebuild(fs, hashes, PathOf(f))

\* C9 amended: a cached file whose byte length or modification time differs from
\* what it was when the entry was stored needs a rebuild
C9_SizeOrTimeChange ==
    \A f \in Cached :
        (\/ ByteLen(fs[f].content) # stamp[PathOf(f)].size
         \/ fs[f].mtime # stamp[PathOf(f)].mtime)
            => needsRebuild(fs, hashes, PathOf(f))

\* a cached, readable file rewritten with the same length in a later second
C9_Witness ==
    \E f \in Cached :
        /\ fs[f].access = "ok"
        /\ ByteLen(fs[f].content) = stamp[PathOf(f)].size
        /\ fs[f].mtime # stamp[PathOf(f)].mtime

\* C10: needsRebuild is true exactly when the path cannot be stat'ed or read, has
\* no entry, or its (byte length, modification time) differs from the stored one
C10_NeedsRebuildExact ==
    \A f \in Files :
        LET path == PathOf(f)
        IN  needsRebuild(fs, hashes, path)
               <=> \/ ~StatOK(fs, path)
                   \/ ~ReadOK(fs, path)
                   \/ path \notin DOMAIN hashes
                   \/ <<stamp[path].size, stamp[path].mtime>>
                         # <<ByteLen(fs[f].content), fs[f].mtime>>

\* one cached file that needs no rebuild and one cached file that cannot be read
C10_Witness ==
    /\ \E f \in Cached : ~needsRebuild(fs, hashes, PathOf(f))
    /\ \E f \in Cached : fs[f].access = "noread"

\* C11: a build stopped by a failed read of a changed file has processed the
\* changed files before that one and none after it, has not finished its
\* process phase, and has written no output file at all
C11_ReadFailureAborts ==
    run.why = "read" =>
        /\ bpc = "idle"
        /\ result = "fail"
        /\ ~run.procDone
        /\ idx <= Len(changedFiles)
        /\ Len(run.log) = idx - 1
        /\ \A i \in 1..Len(run.log) : run.log[i].path = changedFiles[i]
        /\ run.written = {}

\* the second changed file could not be read, after the first was read and
\* retained as a post
C11_Witness ==
    /\ BuildOver
    /\ run.why = "read"
    /\ idx = 2
    /\ Len(posts) = 1

\* the posts the render loop has been through
Rendered == 1..(ridx - 1)

\* C12: a build stopped by a failed render has rendered and written no post
\* after the failing one, and the pages of the posts before it are on disk,
\* each slug holding the page of the last post written to it
C12_RenderFailureStops ==
    run.why = "render" =>
        /\ bpc = "idle"
        /\ result = "fail"
        /\ ridx <= Len(posts)
        /\ run.written = {posts[j].src : j \in Rendered}
        /\ \A j \in Rendered :
              /\ posts[j].Slug \in DOMAIN pub
              /\ (\A k \in Rendered : k > j => posts[k].Slug # posts[j].Slug)
                    => pub[posts[j].Slug] = PageOf(posts[j])

\* the second post failed to render after the first was written
C12_Witness ==
    /\ BuildOver
    /\ run.why = "render"
    /\ ridx = 2
    /\ run.written # {}

\* C13: builds are sequential. buildSite runs only inside the call of main or
\* of the watcher; the watcher is not started before the first build has
\* returned; and the watcher is at its select, or takes an event from it, only
\* when no build is running and no broadcast holds the registry
C13_Sequential ==
    /\ [](bpc # "idle" => wpc \in {"main", "wbuild"})
    /\ [](wpc # "main" => result # "none")
    /\ [](wpc \in {"spawn", "watch", "got", "stopped"}
             => bpc = "idle" /\ lock = "free" /\ todo = {})
    /\ [][wpc' = "got" /\ wpc # "got"
             => wpc = "watch" /\ bpc = "idle" /\ lock = "free" /\ todo = {}]_vars

\* the broadcast that follows a build of the watcher is under way
C13_Witness ==
    /\ wpc = "nloop"
    /\ todo # {}
    /\ result = "ok"

\* C14: receiving a watcher error leaves the watcher at its select and changes
\* nothing of the build or of the registry; the loop is left only by a receive
\* from a closed channel; and an event waiting on watcher.Events is taken by
\* the select unless a channel is closed first
C14_ErrorsDoNotStop ==
    /\ [][wpc = "watch" /\ ev' = ErrItem /\ ev # ErrItem
             => wpc' = "watch" /\ UNCHANGED <<buildVars, sessVars>>]_vars
    /\ [][InLoop /\ ~InLoop' => wpc = "watch" /\ wpc' = "closed" /\ ev' = ClosedItem]_vars
    /\ \A e \in WatchEvents :
          (pend = e) ~> ((wpc = "got" /\ ev = e) \/ wpc = "closed")

\* an event waits on watcher.Events while the select has just logged an error
C14_Witness ==
    /\ wpc = "watch"
    /\ ev = ErrItem
    /\ pend # NoEvent

\* C15: a handler that has opened registers its id; once its client is gone
\* the handler ends and its id is out of the registry; and the id of a handler
\* that has ended is in the registry again only through the registration of a
\* new connection
C15_SessionLifecycle ==
    /\ \A s \in Sessions : (spc[s] = "reg") ~> (spc[s] = "loop" /\ s \in registry)
    /\ \A s \in Sessions : gone[s] ~> (spc[s] = "none" /\ s \notin registry)
    /\ [](\A s \in Sessions : spc[s] \in {"none", "reg"} => s \notin registry)
    /\ [][\A s \in Sessions :
             s \notin registry /\ s \in registry' => spc[s] = "reg" /\ spc'[s] = "loop"]_vars

\* a handler whose client went away has left its loop and is about to delete
\* its id, while the other session is still registered
C15_Witness ==
    \E s, t \in Sessions :
        /\ s # t
        /\ spc[s] = "defer"
        /\ s \in registry
        /\ spc[t] = "loop"
        /\ t \in registry

\* a handler in its loop whose id a broadcast has deleted: the broadcast found
\* the value of an earlier broadcast still in the channel
Merged(s) == spc[s] = "loop" /\ s \notin registry

\* C16: a session's channel never holds more than one value; the value a
\* broadcast put there is received by the handler while its client is
\* connected; and the later broadcasts of a burst, which found the channel
\* full, add nothing to it, so the burst is received as one reload
C16_Coalescing ==
    /\ [](\A s \in Sessions : chan[s] <= 1)
    /\ \A s \in Sessions : (spc[s] = "loop" /\ chan[s] = 1) ~> (chan[s] = 0 \/ gone[s])
    /\ [][\A s \in Sessions : Merged(s) /\ spc'[s] = "loop" => chan'[s] <= chan[s]]_vars
    /\ [][\A s \in Sessions : chan[s] = 1 /\ wpc = "nloop" => chan'[s] <= 1]_vars

\* a second broadcast has found the value of the first still in the channel of
\* a connected session
C16_Witness ==
    \E s \in Sessions :
        /\ wpc = "nloop"
        /\ s \in bc.full
        /\ Merged(s)
        /\ chan[s] = 1
        /\ ~gone[s]

\* C17 as stated: the cache a non-forced build consults in its scan phase is
\* the cache the previous command's process left
C17_CachePersists ==
    (left.valid /\ ~run.force /\ bpc = "scan") => hashes = left.hashes

\* C18 as stated: Load called on the empty cache of a new process returns no
\* error, and leaves the cache empty when the file is missing or is not the
\* object of a map
C18_LoadNeverFails ==
    (lerr.op = "load" /\ lerr.fresh) =>
        /\ ~lerr.err
        /\ disk.kind # "object" => hashes = EmptyMap

\* the paths of the entries of the content directory that are no directory
\* and whose name ends with the content extension
ContentEntries ==
    {PathOf(DirOrder[i]) : i \in {j \in 1..Len(DirOrder) :
                                     /\ Present(fs, DirOrder[j])
                                     /\ ~IsDir(DirOrder[j])
                                     /\ HasSuffix(DirOrder[j], MdExt)}}

\* the paths the second pass has read
LogPaths == {run.log[i].path : i \in 1..Len(run.log)}

\* C19 as stated: a forced build, whatever the cache was, reprocesses every
\* content entry
C19_ForceRebuildsAll ==
    (BuildOver /\ run.force) => ContentEntries \subseteq LogPaths

\* C19 amended: a forced build scans with an empty cache; when it lists the
\* directory every content entry goes into the changed-file list; and when no
\* read fails every one of them is reprocessed
C19_ForceScansAll ==
    /\ [](run.force /\ bpc = "scan" => hashes = EmptyMap)
    /\ [][run.force /\ bpc = "scan" /\ bpc' = "proc"
             => {changedFiles'[i] : i \in 1..Len(changedFiles')} = ContentEntries]_vars
    /\ [](run.force /\ run.procDone => LogPaths = ContentEntries)

\* a forced build has gone through its process phase and has reread a file
\* whose fingerprint the cache held before the build
C19_Witness ==
    /\ run.force
    /\ run.procDone
    /\ \E q \in DOMAIN run.hashes0 : q \in LogPaths /\ ~needsRebuild(fs, run.hashes0, q)

\* a write event on a path that ends with the content extension
WriteOnContent(e) == "WRITE" \in e.op /\ HasSuffix(e.name, MdExt)

\* C20: the watcher, handling an event that is not denylisted, starts a build
\* when the event is a write on a content path and otherwise goes back to its
\* select with build and registry untouched; a build starts nowhere else; the
\* build it started is followed by one broadcast and the broadcast by the
\* select; and the build and the broadcast of such an event do happen
C20_BuildIffWriteOnContent ==
    /\ [][wpc = "got" /\ wpc' # "got" /\ ~PathDenylisted(ev.name)
             => IF WriteOnContent(ev)
                THEN \/ wpc' = "wbuild" /\ bpc' = "scan"
                     \/ wpc' = "notify" /\ bpc' = "idle" /\ run'.why = "tmpl"
                ELSE wpc' = "watch" /\ UNCHANGED <<buildVars, sessVars>>]_vars
    /\ [][InLoop /\ ((bpc' = "scan" /\ bpc # "scan") \/ (run'.why = "tmpl" /\ run.why # "tmpl"))
             => wpc = "got" /\ WriteOnContent(ev)]_vars
    /\ [](wpc \in {"wbuild", "notify", "nloop"}
             => WriteOnContent(ev) /\ ~PathDenylisted(ev.name))
    /\ [][wpc = "wbuild" /\ wpc' # "wbuild" => wpc' = "notify" /\ bpc' = "idle"]_vars
    /\ [][wpc = "notify" /\ wpc' # "notify" => wpc' = "nloop" /\ lock' = "watcher"]_vars
    /\ [][wpc = "nloop" /\ wpc' # "nloop" => wpc' = "watch" /\ lock' = "free"]_vars
    /\ [][lock' # lock /\ lock' = "watcher" => wpc = "notify"]_vars
    /\ (wpc = "got" /\ WriteOnContent(ev) /\ ~PathDenylisted(ev.name)) ~> (wpc = "nloop")

\* the broadcast after the build that a WRITE|CHMOD event on a.md started
C20_Witness ==
    /\ wpc = "nloop"
    /\ ev = [name |-> PathOf(FileA), op |-> {"WRITE", "CHMOD"}]
    /\ result = "ok"

\* C21: from the start of a build to the end of its first pass the cache map
\* is the map the build started with (emptied if the build is forced), the
\* last-build time is unchanged and no page is written; the first pass itself
\* changes none of them
C21_ScanReadOnly ==
    /\ [](bpc = "scan"
             => /\ hashes = (IF run.force THEN EmptyMap ELSE run.hashes0)
                /\ lastBuild = run.lastBuild0
                /\ run.updated = {}
                /\ run.written = {})
    /\ [][bpc = "scan" => UNCHANGED <<hashes, lastBuild, pub>>]_vars

\* the first pass of a non-forced build has just found changed files while
\* the cache held entries
C21_Witness ==
    /\ bpc = "proc"
    /\ idx = 1
    /\ run.log = <<>>
    /\ ~run.force
    /\ changedFiles # <<>>
    /\ hashes # EmptyMap
    /\ hashes = run.hashes0

\* the next step of notifyLiveReload while it holds the lock
NotifyStep == (\E s \in Sessions : NotifySend(s)) \/ NotifyUnlock

\* C22: the lock is held only by a broadcast under way (a handler's register
\* and deregister take and release it in one step), the broadcast can always
\* take its next step; the watcher, waiting for the lock or holding it, gets
\* through the broadcast and releases it; and every handler waiting for the
\* lock gets through its register or deregister
C22_NoLockDeadlock ==
    /\ [](lock = "watcher" <=> wpc = "nloop")
    /\ [](lock = "watcher" => ENABLED NotifyStep)
    /\ (wpc \in {"notify", "nloop"}) ~> (wpc = "watch" /\ lock = "free")
    /\ \A s \in Sessions : (spc[s] \in {"reg", "defer"}) ~> (spc[s] \in {"loop", "none"})

\* the broadcast holds the lock, has a full channel still to visit, and both
\* handlers wait for the lock, one to register and one to deregister
C22_Witness ==
    \E s, t \in Sessions :
        /\ lock = "watcher"
        /\ spc[s] = "reg"
        /\ spc[t] = "defer"
        /\ t \in todo
        /\ chan[t] = ChanCap

\* the number of places where sub occurs in s
Occurrences(s, sub) ==
    Cardinality({i \in 1..(Len(s) - Len(sub) + 1) : SubSeq(s, i, i + Len(sub) - 1) = sub})

\* the result of injectLiveReload is at hand
Injected == ret.done /\ arg.fn = "injectLiveReload"

\* C23 as stated: the result is the input with the fragment put directly
\* before its first closing body tag, or after its end when it has none
C23_FragmentBeforeTag ==
    Injected =>
        LET i == Index(arg.x, BodyClose)
        IN  ret.val = IF i > 0
                      THEN SubSeq(arg.x, 1, i - 1) \o liveReloadScript
                              \o SubSeq(arg.x, i, Len(arg.x))
                      ELSE arg.x \o liveReloadScript

\* C23 amended: before the first closing body tag the fragment comes with a
\* line feed after it; in both cases the fragment occurs once more than in
\* the input and the closing body tags are as many as before
C23_FragmentAndLineFeedBeforeTag ==
    Injected =>
        LET i == Index(arg.x, BodyClose)
        IN  /\ ret.val = IF i > 0
                         THEN SubSeq(arg.x, 1, i - 1) \o liveReloadScript \o LineFeed
                                 \o SubSeq(arg.x, i, Len(arg.x))
                         ELSE arg.x \o liveReloadScript
            /\ Occurrences(ret.val, liveReloadScript)
                  = Occurrences(arg.x, liveReloadScript) + 1
            /\ Occurrences(ret.val, BodyClose) = Occurrences(arg.x, BodyClose)

\* the input had text, then a closing body tag, then a second closing body tag
C23_Witness ==
    /\ Injected
    /\ Index(arg.x, BodyClose) > 1
    /\ Occurrences(arg.x, BodyClose) = 2

\* C24 as stated: when the build before this one failed in its render loop
\* and the content directory has not changed since, the first pass of this
\* non-forced build finds every file changed whose page that build left
\* unwritten
C24_RetryAfterFailure ==
    (Quiet /\ ~run.force /\ run.scanned)
        => prev.unwritten \subseteq {changedFiles[i] : i \in 1..Len(changedFiles)}

\* C25 as stated: the posts of one build that come from different files have
\* different slugs, hence different output paths
C25_SlugInjective ==
    \A i, j \in 1..Len(posts) :
        posts[i].src # posts[j].src => posts[i].Slug # posts[j].Slug

\* C26 as stated: after a successful build during which the content directory
\* did not change, every page in public/ comes from a file that exists and
\* is not a draft
C26_NoStaleOutput ==
    (BuildOver /\ result = "ok" /\ run.edits0 = edits)
        => \A g \in DOMAIN pub :
              \E f \in Files : /\ fs[f].present
                               /\ PathOf(f) = pub[g].src
                               /\ Retained(fs[f].content)

\* the handlers that have registered and not yet run their deferred delete
Running == {s \in Sessions : spc[s] \in {"loop", "defer"}}

\* C27: every id in the registry is the id of a running handler; an id enters
\* the registry only by the registration that starts its handler's loop; a
\* running handler whose id was removed does not get it back; and a handler
\* that ends removes its own id and no other
C27_RegistryOnlyRunning ==
    /\ [](registry \subseteq Running)
    /\ [][\A s \in registry' \ registry : spc[s] = "reg" /\ spc'[s] = "loop"]_vars
    /\ [][\A s \in Running \ registry : spc'[s] # "none" => s \notin registry']_vars
    /\ [][\A s \in Sessions :
             spc[s] = "defer" /\ spc'[s] = "none" => registry' = registry \ {s}]_vars

\* a handler dropped by a broadcast is about to end while the other session
\* is registered
C27_Witness ==
    \E s, t \in Sessions :
        /\ spc[s] = "defer"
        /\ s \notin registry
        /\ t \in registry

\* C28: updateFile on a path whose fingerprint cannot be computed returns an
\* error with the map and the last-build time it was given; and the second
\* pass, when that happens, changes neither, keeps the posts it has and goes
\* on to the next changed file with the build still running
C28_UpdateFailureIgnored ==
    /\ [](\A f \in Files :
             LET u == updateFile(fs, hashes, lastBuild, clock, PathOf(f))
             IN  (~StatOK(fs, PathOf(f)) \/ ~ReadOK(fs, PathOf(f)))
                    => u.err /\ u.hashes = hashes /\ u.lastBuild = lastBuild)
    /\ [][(/\ bpc = "upd"
           /\ bpc' # "upd"
           /\ (~StatOK(fs, changedFiles[idx]) \/ ~ReadOK(fs, changedFiles[idx])))
             => /\ UNCHANGED <<hashes, lastBuild, posts, result, wpc>>
                /\ bpc' = "proc"
                /\ idx' = idx + 1]_vars

\* the second pass has gone past a file it read and retained as a post but
\* whose fingerprint it could not store
C28_Witness ==
    /\ bpc = "proc"
    /\ \E i \in 1..Len(run.log) :
          /\ i < idx
          /\ run.log[i].path \notin run.updated
          /\ run.log[i].path \in RetainedSrc

\* the file name without its extension, a lowercase ASCII first letter made
\* uppercase and every other first byte kept
Capitalized(filename) ==
    LET name == SubSeq(filename, 1, Len(filename) - 3)
    IN  IF Len(name) > 0 /\ name[1] >= 97 /\ name[1] <= 122
        THEN <<name[1] - 32>> \o SubSeq(name, 2, Len(name))
        ELSE name

\* C29: for every file name the scanner accepts, extractTitle returns the
\* name without its extension with only a lowercase ASCII first letter
\* changed, to its uppercase letter, and nothing wrapping around
C29_TitleCapitalized ==
    (ret.done /\ arg.fn = "extractTitle" /\ hasMarkdownExtension(arg.x))
        => ret.val = Capitalized(arg.x)
====
